---- MODULE Spec2Model ----
(***************************************************************************)
(* The expression rewriter of src/expr.rs (impl FmtVisitor) as a stack     *)
(* machine: one frame per call of rewrite_expr, rewrite_string_lit,        *)
(* rewrite_call, rewrite_paren, rewrite_struct_lit, rewrite_field and      *)
(* rewrite_tuple_lit, one action per straight-line piece of a function.    *)
(*                                                                         *)
(* Strings are sequences of one-character strings; their Len is the byte   *)
(* length the code measures with .len().  usize is modelled modulo         *)
(* 2^WordBits; a build with overflow checks panics where a build without   *)
(* them wraps, and overflow_checks says which build runs.                  *)
(*                                                                         *)
(* MIN_STRING is imported by expr.rs from the crate root, which is not     *)
(* part of the file; the model scales it with the widths it explores.      *)
(***************************************************************************)
EXTENDS Integers, Sequences, FiniteSets, TLC

VARIABLES
    max_width,          \* config!(max_width)
    trailing_comma,     \* config!(struct_lit_trailing_comma)
    overflow_checks,    \* TRUE: arithmetic overflow panics; FALSE: it wraps
    request,            \* the top-level rewrite_expr call: node, width, offset
    stack,              \* call stack, the running call last
    ret,                \* the value of the last return
    done_frame,         \* the frame of the call that returned last
    status,             \* "running", "done" or "panicked"
    budget_underflow    \* a budget subtraction has gone below zero

vars == <<max_width, trailing_comma, overflow_checks, request, stack, ret,
          done_frame, status, budget_underflow>>

config == <<max_width, trailing_comma, overflow_checks, request>>

-----------------------------------------------------------------------------
(* Bounds of the exploration *)

\* longest text of a string literal, in characters before escaping
MaxLen == 3

\* the minimum chunk length, scaled to the widths below
MIN_STRING == 3

\* bits of a usize
WordBits == 16

\* lines a wrapping loop that makes no progress is followed for, beyond one
\* line per character of the text
MaxStall == 2

\* max_width of the requests that wrap a string literal
NarrowMaxWidth == 5

\* max_width and largest width of the requests that rewrite an expression
WideMaxWidth == 12

\* largest offset of the requests that rewrite an expression
MaxOffset == 2

-----------------------------------------------------------------------------
(* usize arithmetic *)

Modulus == 2 ^ WordBits

Sub(a, b) == (a - b + Modulus) % Modulus

Underflows(a, b) == a < b

Add(a, b) == (a + b) % Modulus

Overflows(a, b) == a + b >= Modulus

-----------------------------------------------------------------------------
(* Characters and strings *)

Quote == "\""

Backslash == "\\"

Newline == "\n"

Space == " "

RECURSIVE Concat(_)
Concat(seqs) == IF seqs = <<>> THEN <<>> ELSE Head(seqs) \o Concat(Tail(seqs))

\* char::escape_default: the characters a text is drawn from are a letter, a
\* space, a backslash, a line feed, a double quote and U+00E9.
escape_char(c) ==
    CASE c = Backslash -> <<Backslash, Backslash>>
      [] c = Newline   -> <<Backslash, "n">>
      [] c = Quote     -> <<Backslash, Quote>>
      [] c = "U+E9"    -> <<Backslash, "u", "{", "e", "9", "}">>
      [] OTHER         -> <<c>>

escape_default(text) == Concat([i \in 1..Len(text) |-> escape_char(text[i])])

is_whitespace(c) == c \in {Space, Newline, "\t", "\r"}

\* s.char_at(i), for i < s.len(); every character of an escaped text is one byte
char_at(s, i) == s[i + 1]

\* &s[from..to]
Slice(s, from, to) == SubSeq(s, from + 1, to)

next_char(s, i) == IF i >= Len(s) THEN Len(s) ELSE i

prev_char(s, i) == IF i = 0 THEN 0 ELSE i - 1

make_indent(width) == [i \in 1..width |-> Space]

-----------------------------------------------------------------------------
(* Expression nodes *)

Node(kind, text, lo_line, hi_line, hi_col, snip, name, subs, base) ==
    [kind |-> kind, s |-> text, lo_line |-> lo_line, hi_line |-> hi_line,
     hi_col |-> hi_col, snip |-> snip, name |-> name, subs |-> subs,
     base |-> base]

\* how the source spells a character of a string literal
source_char(c) ==
    IF c = "U+E9" THEN <<Backslash, "u", "{", "E", "9", "}">> ELSE escape_char(c)

source_text(text) == Concat([i \in 1..Len(text) |-> source_char(text[i])])

LitStr(text, lo_line, hi_line, hi_col) ==
    Node("LitStr", text, lo_line, hi_line, hi_col,
         <<Quote>> \o source_text(text) \o <<Quote>>, <<>>, <<>>, <<>>)

\* self.snippet(span)
snippet(node) == node.snip

-----------------------------------------------------------------------------
(* Frames *)

Frame(fn, role, node, width, offset) ==
    [fn |-> fn, role |-> role, node |-> node, width |-> width,
     offset |-> offset, pc |-> "entry", strs |-> <<>>, budget |-> 0,
     indent |-> 0, lists |-> 0, s |-> <<>>, cur_start |-> 0, cur_end |-> 0,
     max_chars |-> 0, result |-> <<>>, lines |-> 0]

NoNode == Node("None", <<>>, 0, 0, 0, <<>>, <<>>, <<>>, <<>>)

NoFrame == Frame("none", "none", NoNode, 0, 0)

Top == stack[Len(stack)]

Running(fn, pc) ==
    /\ status = "running"
    /\ stack # <<>>
    /\ Top.fn = fn
    /\ Top.pc = pc

SetTop(f) == [stack EXCEPT ![Len(stack)] = f]

\* the running call returns v to its caller, which collects it in strs
ReturnAs(f, v) ==
    /\ ret' = v
    /\ done_frame' = f
    /\ stack' = [i \in 1..(Len(stack) - 1) |->
                    IF i = Len(stack) - 1
                    THEN [stack[i] EXCEPT !.strs = Append(@, v)]
                    ELSE stack[i]]
    /\ status' = IF Len(stack) = 1 THEN "done" ELSE "running"

Return(v) == ReturnAs(Top, v)

\* the frame after a call of write_list
Listed(f) == [f EXCEPT !.lists = @ + 1]

Panic ==
    /\ status' = "panicked"
    /\ UNCHANGED <<stack, ret, done_frame>>

Goto(f) ==
    /\ stack' = SetTop(f)
    /\ UNCHANGED <<ret, done_frame, status>>

Call(f, callee) ==
    /\ stack' = Append(SetTop(f), callee)
    /\ UNCHANGED <<ret, done_frame, status>>

-----------------------------------------------------------------------------
(* rewrite_string_lit *)

\* the end column is compared with < instead of <=
NothingToFixStrict(node) ==
    node.lo_line = node.hi_line /\ node.hi_col < max_width

NothingToFix(node) ==
    node.lo_line = node.hi_line /\ node.hi_col <= max_width

StrShortCircuit ==
    /\ Running("rewrite_string_lit", "entry")
    /\ NothingToFix(Top.node)
    /\ Return(snippet(Top.node))
    /\ UNCHANGED <<config, budget_underflow>>

\* lines 36-44; indent holds the shadowed offset, offset + 1
StrEscape ==
    /\ Running("rewrite_string_lit", "entry")
    /\ ~NothingToFix(Top.node)
    /\ Goto([Top EXCEPT !.s = escape_default(Top.node.s),
                        !.indent = Add(Top.offset, 1),
                        !.cur_start = 0,
                        !.result = <<Quote>>,
                        !.pc = "loop"])
    /\ UNCHANGED <<config, budget_underflow>>

FirstLineChars(width) == Sub(width, 2)

NextLineChars(offset) == Sub(Sub(max_width, offset), 1)

MaxChars(f) ==
    IF f.cur_start = 0 THEN FirstLineChars(f.width) ELSE NextLineChars(f.indent)

MaxCharsUnderflows(f) ==
    IF f.cur_start = 0
    THEN Underflows(f.width, 2)
    ELSE Underflows(max_width, f.indent) \/ Underflows(Sub(max_width, f.indent), 1)

LoopPanics(f) ==
    overflow_checks /\ (MaxCharsUnderflows(f) \/ Overflows(f.cur_start, MaxChars(f)))

\* lines 46-53 in a build with overflow checks
StrBudgetPanic ==
    /\ Running("rewrite_string_lit", "loop")
    /\ LoopPanics(Top)
    /\ budget_underflow' = (budget_underflow \/ MaxCharsUnderflows(Top))
    /\ Panic
    /\ UNCHANGED config

LastSegment(f) == f.result \o Slice(f.s, f.cur_start, Len(f.s)) \o <<Quote>>

\* lines 46-58 and 87-89
StrLastSegment ==
    /\ Running("rewrite_string_lit", "loop")
    /\ ~LoopPanics(Top)
    /\ Add(Top.cur_start, MaxChars(Top)) >= Len(Top.s)
    /\ budget_underflow' = (budget_underflow \/ MaxCharsUnderflows(Top))
    /\ Return(LastSegment(Top))
    /\ UNCHANGED config

\* lines 46-61
StrCut ==
    /\ Running("rewrite_string_lit", "loop")
    /\ ~LoopPanics(Top)
    /\ Add(Top.cur_start, MaxChars(Top)) < Len(Top.s)
    /\ budget_underflow' = (budget_underflow \/ MaxCharsUnderflows(Top))
    /\ Goto([Top EXCEPT !.max_chars = MaxChars(Top),
                        !.cur_end = next_char(Top.s, Add(Top.cur_start, MaxChars(Top))),
                        !.pc = "search"])
    /\ UNCHANGED config

\* lines 64-67 and 76: push cur_end left until the character before it is
\* whitespace ("ws"), the chunk gets shorter than MIN_STRING ("fallback"), or
\* an index leaves the string ("panic")
RECURSIVE PushLeft(_, _, _)
PushLeft(s, cur_start, cur_end) ==
    IF cur_end = 0
    THEN [out |-> "panic", cur_end |-> cur_end]
    ELSE IF is_whitespace(char_at(s, cur_end - 1))
    THEN [out |-> "ws", cur_end |-> cur_end]
    ELSE LET e == prev_char(s, cur_end) IN
         IF overflow_checks /\ Underflows(e, cur_start)
         THEN [out |-> "panic", cur_end |-> e]
         ELSE IF Sub(e, cur_start) < MIN_STRING
         THEN [out |-> "fallback", cur_end |-> e]
         ELSE PushLeft(s, cur_start, e)

StrBreakAtWhitespace ==
    /\ Running("rewrite_string_lit", "search")
    /\ LET p == PushLeft(Top.s, Top.cur_start, Top.cur_end) IN
         /\ p.out = "ws"
         /\ Goto([Top EXCEPT !.cur_end = p.cur_end, !.pc = "skip"])
    /\ UNCHANGED <<config, budget_underflow>>

\* lines 67-70
StrFallBack ==
    /\ Running("rewrite_string_lit", "search")
    /\ PushLeft(Top.s, Top.cur_start, Top.cur_end).out = "fallback"
    /\ Goto([Top EXCEPT
                !.cur_end = next_char(Top.s, Add(Top.cur_start, Top.max_chars)),
                !.pc = "fallback"])
    /\ UNCHANGED <<config, budget_underflow>>

StrSearchPanic ==
    /\ Running("rewrite_string_lit", "search")
    /\ PushLeft(Top.s, Top.cur_start, Top.cur_end).out = "panic"
    /\ Panic
    /\ UNCHANGED <<config, budget_underflow>>

\* line 71
BeforeIsBackslash(s, cur_end) == char_at(s, prev_char(s, cur_end)) = Backslash

\* lines 71-73, one iteration
StrFallBackLeft ==
    /\ Running("rewrite_string_lit", "fallback")
    /\ BeforeIsBackslash(Top.s, Top.cur_end)
    /\ Goto([Top EXCEPT !.cur_end = prev_char(Top.s, Top.cur_end)])
    /\ UNCHANGED <<config, budget_underflow>>

\* lines 71 and 74
StrFallBackStop ==
    /\ Running("rewrite_string_lit", "fallback")
    /\ ~BeforeIsBackslash(Top.s, Top.cur_end)
    /\ Goto([Top EXCEPT !.pc = "skip"])
    /\ UNCHANGED <<config, budget_underflow>>

\* lines 78-80
RECURSIVE SkipRight(_, _)
SkipRight(s, cur_end) ==
    IF cur_end < Len(s) /\ is_whitespace(char_at(s, cur_end))
    THEN SkipRight(s, next_char(s, cur_end + 1))
    ELSE cur_end

\* the line is cut where the search stopped, before the whitespace is skipped
PushLineUnskipped(f, cur_end) ==
    f.result \o Slice(f.s, f.cur_start, f.cur_end) \o <<Backslash, Newline>>
             \o make_indent(f.indent)

\* lines 81-83
PushLine(f, cur_end) ==
    f.result \o Slice(f.s, f.cur_start, cur_end) \o <<Backslash, Newline>>
             \o make_indent(f.indent)

\* lines 78-85
StrPushLine ==
    /\ Running("rewrite_string_lit", "skip")
    /\ Top.lines < Len(Top.s) + MaxStall
    /\ LET e == SkipRight(Top.s, Top.cur_end) IN
         /\ e >= Top.cur_start
         /\ Goto([Top EXCEPT !.result = PushLine(Top, e),
                             !.cur_start = e,
                             !.cur_end = e,
                             !.lines = @ + 1,
                             !.pc = "loop"])
    /\ UNCHANGED <<config, budget_underflow>>

\* line 81 with cur_end < cur_start
StrSlicePanic ==
    /\ Running("rewrite_string_lit", "skip")
    /\ SkipRight(Top.s, Top.cur_end) < Top.cur_start
    /\ Panic
    /\ UNCHANGED <<config, budget_underflow>>

-----------------------------------------------------------------------------
(* lists::write_list, as far as the rewriters depend on it *)

RECURSIVE Join(_, _)
Join(items, sep) ==
    IF items = <<>> THEN <<>>
    ELSE IF Len(items) = 1 THEN items[1]
    ELSE items[1] \o sep \o Join(Tail(items), sep)

write_list(items, tactic, trailing_separator, indent, h_width, v_width) ==
    LET one_line == Join(items, <<",", Space>>)
                        \o (IF trailing_separator = "Always" THEN <<",">> ELSE <<>>)
        per_line == Join(items, <<",", Newline>> \o make_indent(indent))
                        \o (IF trailing_separator = "Never" THEN <<>> ELSE <<",">>)
    IN  IF items = <<>> THEN <<>>
        ELSE IF tactic = "HorizontalVertical" /\ Len(one_line) <= h_width
        THEN one_line
        ELSE per_line

-----------------------------------------------------------------------------
(* rewrite_expr *)

\* every literal, string or not, goes to the string wrapper
RewriterAnyLit(node) ==
    CASE node.kind \in {"LitStr", "LitInt"} -> "rewrite_string_lit"
      [] node.kind = "Call"   -> "rewrite_call"
      [] node.kind = "Paren"  -> "rewrite_paren"
      [] node.kind = "Struct" -> "rewrite_struct_lit"
      [] node.kind = "Tup"    -> "rewrite_tuple_lit"
      [] OTHER                -> "snippet"

\* the match of lines 231-259
Rewriter(node) ==
    CASE node.kind = "LitStr" -> "rewrite_string_lit"
      [] node.kind = "Call"   -> "rewrite_call"
      [] node.kind = "Paren"  -> "rewrite_paren"
      [] node.kind = "Struct" -> "rewrite_struct_lit"
      [] node.kind = "Tup"    -> "rewrite_tuple_lit"
      [] OTHER                -> "snippet"

\* the arguments rewrite_expr hands to the rewriter it picks
Dispatch(f) == Frame(Rewriter(f.node), "dispatch", f.node, f.width, f.offset)

ExprDispatch ==
    /\ Running("rewrite_expr", "entry")
    /\ Rewriter(Top.node) # "snippet"
    /\ Call([Top EXCEPT !.pc = "ret"], Dispatch(Top))
    /\ UNCHANGED <<config, budget_underflow>>

ExprReturn ==
    /\ Running("rewrite_expr", "ret")
    /\ Return(Top.strs[1])
    /\ UNCHANGED <<config, budget_underflow>>

\* line 261
ExprSnippet ==
    /\ Running("rewrite_expr", "entry")
    /\ Rewriter(Top.node) = "snippet"
    /\ Return(snippet(Top.node))
    /\ UNCHANGED <<config, budget_underflow>>

-----------------------------------------------------------------------------
(* rewrite_call: node.subs is the callee followed by the arguments *)

CallCallee ==
    /\ Running("rewrite_call", "entry")
    /\ Call([Top EXCEPT !.pc = "callee"],
            Frame("rewrite_expr", "callee", Top.node.subs[1], Top.width, Top.offset))
    /\ UNCHANGED <<config, budget_underflow>>

\* line 105
RemainingWidth(width, callee_len) == Sub(Sub(width, callee_len), 2)

RemainingUnderflows(width, callee_len) ==
    Underflows(width, callee_len) \/ Underflows(Sub(width, callee_len), 2)

\* both parentheses are charged to the offset
ArgOffsetBothParens(offset, callee_len) == Add(Add(callee_len, 2), offset)

\* line 106
ArgOffset(offset, callee_len) == Add(Add(callee_len, 1), offset)

CallPanic ==
    /\ Running("rewrite_call", "callee")
    /\ overflow_checks
    /\ RemainingUnderflows(Top.width, Len(Top.strs[1]))
    /\ budget_underflow' = TRUE
    /\ Panic
    /\ UNCHANGED config

\* lines 105-107
CallBudget ==
    /\ Running("rewrite_call", "callee")
    /\ ~(overflow_checks /\ RemainingUnderflows(Top.width, Len(Top.strs[1])))
    /\ budget_underflow' =
          (budget_underflow \/ RemainingUnderflows(Top.width, Len(Top.strs[1])))
    /\ Goto([Top EXCEPT !.budget = RemainingWidth(Top.width, Len(Top.strs[1])),
                        !.indent = ArgOffset(Top.offset, Len(Top.strs[1])),
                        !.pc = "args"])
    /\ UNCHANGED config

\* lines 110-112, one argument
CallArg ==
    /\ Running("rewrite_call", "args")
    /\ Len(Top.strs) < Len(Top.node.subs)
    /\ Call(Top, Frame("rewrite_expr", "arg", Top.node.subs[Len(Top.strs) + 1],
                       Top.budget, Top.indent))
    /\ UNCHANGED <<config, budget_underflow>>

CallResult(f) ==
    LET args_str == IF Len(f.node.subs) > 1
                    THEN write_list(Tail(f.strs), "HorizontalVertical", "Never",
                                    f.indent, f.budget, f.budget)
                    ELSE <<>>
    IN  f.strs[1] \o <<"(">> \o args_str \o <<")">>

\* lines 109-126
CallFinish ==
    /\ Running("rewrite_call", "args")
    /\ Len(Top.strs) = Len(Top.node.subs)
    /\ ReturnAs(IF Len(Top.node.subs) > 1 THEN Listed(Top) ELSE Top, CallResult(Top))
    /\ UNCHANGED <<config, budget_underflow>>

-----------------------------------------------------------------------------
(* rewrite_paren *)

\* the two parentheses are added to the width
ParenWidthAdded(width) == Add(width, 2)

ParenWidth(width) == Sub(width, 2)

ParenOffset(offset) == Add(offset, 1)

ParenPanic ==
    /\ Running("rewrite_paren", "entry")
    /\ overflow_checks
    /\ Underflows(Top.width, 2)
    /\ budget_underflow' = TRUE
    /\ Panic
    /\ UNCHANGED config

\* line 133
ParenSub ==
    /\ Running("rewrite_paren", "entry")
    /\ ~(overflow_checks /\ Underflows(Top.width, 2))
    /\ budget_underflow' = (budget_underflow \/ Underflows(Top.width, 2))
    /\ Call([Top EXCEPT !.pc = "sub"],
            Frame("rewrite_expr", "paren", Top.node.subs[1],
                  ParenWidth(Top.width), ParenOffset(Top.offset)))
    /\ UNCHANGED config

\* line 135
ParenFinish ==
    /\ Running("rewrite_paren", "sub")
    /\ Return(<<"(">> \o Top.strs[1] \o <<")">>)
    /\ UNCHANGED <<config, budget_underflow>>

-----------------------------------------------------------------------------
(* rewrite_struct_lit: node.name is the path, node.subs the fields,        *)
(* node.base the base expression, if any                                   *)

\* line 147
StructAssert ==
    /\ Running("rewrite_struct_lit", "entry")
    /\ ~(Len(Top.node.subs) > 0 \/ Top.node.base # <<>>)
    /\ Panic
    /\ UNCHANGED <<config, budget_underflow>>

\* line 151
StructIndent(offset, path_len) == Add(Add(offset, path_len), 3)

\* line 152
StructBudget(width, path_len) == Sub(width, Add(path_len, 5))

StructUnderflows(f) ==
    \/ f.pc = "entry" /\ Underflows(f.width, Add(Len(f.node.name), 5))
    \/ f.pc = "fields" /\ Len(f.strs) = Len(f.node.subs) /\ f.node.base # <<>>
                       /\ Underflows(f.budget, 2)

StructPanic ==
    /\ status = "running"
    /\ stack # <<>>
    /\ Top.fn = "rewrite_struct_lit"
    /\ Len(Top.node.subs) > 0 \/ Top.node.base # <<>>
    /\ overflow_checks
    /\ StructUnderflows(Top)
    /\ budget_underflow' = TRUE
    /\ Panic
    /\ UNCHANGED config

\* lines 149-152
StructBegin ==
    /\ Running("rewrite_struct_lit", "entry")
    /\ Len(Top.node.subs) > 0 \/ Top.node.base # <<>>
    /\ ~(overflow_checks /\ StructUnderflows(Top))
    /\ budget_underflow' = (budget_underflow \/ StructUnderflows(Top))
    /\ Goto([Top EXCEPT !.indent = StructIndent(Top.offset, Len(Top.node.name)),
                        !.budget = StructBudget(Top.width, Len(Top.node.name)),
                        !.pc = "fields"])
    /\ UNCHANGED config

\* line 155, one field
StructField ==
    /\ Running("rewrite_struct_lit", "fields")
    /\ Len(Top.strs) < Len(Top.node.subs)
    /\ Call(Top, Frame("rewrite_field", "field", Top.node.subs[Len(Top.strs) + 1],
                       Top.budget, Top.indent))
    /\ UNCHANGED <<config, budget_underflow>>

BaseWidth(budget) == Sub(budget, 2)

BaseOffset(indent) == Add(indent, 2)

\* lines 156-158
StructBase ==
    /\ Running("rewrite_struct_lit", "fields")
    /\ Len(Top.strs) = Len(Top.node.subs)
    /\ Top.node.base # <<>>
    /\ ~(overflow_checks /\ StructUnderflows(Top))
    /\ budget_underflow' = (budget_underflow \/ StructUnderflows(Top))
    /\ Call([Top EXCEPT !.pc = "base"],
            Frame("rewrite_expr", "base", Top.node.base[1],
                  BaseWidth(Top.budget), BaseOffset(Top.indent)))
    /\ UNCHANGED config

StructResult(f) ==
    LET n == Len(f.node.subs)
        field_strs == IF f.node.base # <<>>
                      THEN SubSeq(f.strs, 1, n) \o << <<".", ".">> \o f.strs[n + 1] >>
                      ELSE f.strs
        fields_str == write_list(field_strs, "HorizontalVertical",
                                 IF f.node.base # <<>> THEN "Never" ELSE trailing_comma,
                                 f.indent, f.budget, f.budget)
    IN  f.node.name \o <<Space, "{", Space>> \o fields_str \o <<Space, "}">>

\* lines 162-176
StructFinish ==
    /\ \/ /\ Running("rewrite_struct_lit", "fields")
          /\ Len(Top.strs) = Len(Top.node.subs)
          /\ Top.node.base = <<>>
       \/ Running("rewrite_struct_lit", "base")
    /\ ReturnAs(Listed(Top), StructResult(Top))
    /\ UNCHANGED <<config, budget_underflow>>

-----------------------------------------------------------------------------
(* rewrite_field: node.name is the identifier, node.subs[1] the value *)

\* line 186
Overhead(node) == Add(Len(node.name), 2)

FieldPanic ==
    /\ Running("rewrite_field", "entry")
    /\ overflow_checks
    /\ Underflows(Top.width, Overhead(Top.node))
    /\ budget_underflow' = TRUE
    /\ Panic
    /\ UNCHANGED config

\* line 187
FieldValue ==
    /\ Running("rewrite_field", "entry")
    /\ ~(overflow_checks /\ Underflows(Top.width, Overhead(Top.node)))
    /\ budget_underflow' = (budget_underflow \/ Underflows(Top.width, Overhead(Top.node)))
    /\ Call([Top EXCEPT !.pc = "value"],
            Frame("rewrite_expr", "field_value", Top.node.subs[1],
                  Sub(Top.width, Overhead(Top.node)),
                  Add(Top.offset, Overhead(Top.node))))
    /\ UNCHANGED config

\* line 188
FieldFinish ==
    /\ Running("rewrite_field", "value")
    /\ Return(Top.node.name \o <<":", Space>> \o Top.strs[1])
    /\ UNCHANGED <<config, budget_underflow>>

-----------------------------------------------------------------------------
(* rewrite_tuple_lit: node.subs are the items *)

\* line 194
TupIndent(offset) == Add(offset, 1)

\* line 197
SingleWidth(width) == Sub(width, 3)

\* line 207, for item i of n
ItemWidth(i, n, width, indent) ==
    IF i = n THEN Sub(width, 2) ELSE Sub(Sub(max_width, indent), 2)

ItemUnderflows(i, n, width, indent) ==
    IF i = n
    THEN Underflows(width, 2)
    ELSE Underflows(max_width, indent) \/ Underflows(Sub(max_width, indent), 2)

\* the subtraction the call is about to make
TupUnderflows(f) ==
    LET n == Len(f.node.subs) IN
    IF n = 1 THEN f.pc = "entry" /\ Underflows(f.width, 3)
    ELSE IF Len(f.strs) < n
    THEN ItemUnderflows(Len(f.strs) + 1, n, f.width, TupIndent(f.offset))
    ELSE Underflows(f.width, 2)

TupPanic ==
    /\ status = "running"
    /\ stack # <<>>
    /\ Top.fn = "rewrite_tuple_lit"
    /\ overflow_checks
    /\ TupUnderflows(Top)
    /\ budget_underflow' = TRUE
    /\ Panic
    /\ UNCHANGED config

\* lines 196-197, the call
TupSingle ==
    /\ Running("rewrite_tuple_lit", "entry")
    /\ Len(Top.node.subs) = 1
    /\ ~(overflow_checks /\ TupUnderflows(Top))
    /\ budget_underflow' = (budget_underflow \/ TupUnderflows(Top))
    /\ Call([Top EXCEPT !.pc = "single"],
            Frame("rewrite_expr", "tuple_single", Top.node.subs[1],
                  SingleWidth(Top.width), TupIndent(Top.offset)))
    /\ UNCHANGED config

\* the comma of the one-element tuple is left out
SingleResultNoComma(item_str) == <<"(">> \o item_str \o <<")">>

SingleResult(item_str) == <<"(">> \o item_str \o <<",", ")">>

\* line 197, the return
TupSingleFinish ==
    /\ Running("rewrite_tuple_lit", "single")
    /\ Return(SingleResult(Top.strs[1]))
    /\ UNCHANGED <<config, budget_underflow>>

\* lines 200-209, one item
TupItem ==
    /\ status = "running"
    /\ stack # <<>>
    /\ Top.fn = "rewrite_tuple_lit"
    /\ Top.pc \in {"entry", "items"}
    /\ Len(Top.node.subs) # 1
    /\ Len(Top.strs) < Len(Top.node.subs)
    /\ ~(overflow_checks /\ TupUnderflows(Top))
    /\ budget_underflow' = (budget_underflow \/ TupUnderflows(Top))
    /\ LET i == Len(Top.strs) + 1
           n == Len(Top.node.subs)
       IN  Call([Top EXCEPT !.pc = "items"],
                Frame("rewrite_expr",
                      IF i = n THEN "tuple_last" ELSE "tuple_other",
                      Top.node.subs[i],
                      ItemWidth(i, n, Top.width, TupIndent(Top.offset)),
                      TupIndent(Top.offset)))
    /\ UNCHANGED config

\* lines 210-214
Tactic(item_strs) ==
    IF \E i \in 1..Len(item_strs) : \E j \in 1..Len(item_strs[i]) :
          item_strs[i][j] = Newline
    THEN "Vertical"
    ELSE "HorizontalVertical"

TupResult(f) ==
    <<"(">> \o write_list(f.strs, Tactic(f.strs), "Never", TupIndent(f.offset),
                          Sub(f.width, 2), Sub(f.width, 2))
            \o <<")">>

\* lines 210-226
TupFinish ==
    /\ status = "running"
    /\ stack # <<>>
    /\ Top.fn = "rewrite_tuple_lit"
    /\ Top.pc \in {"entry", "items"}
    /\ Len(Top.node.subs) # 1
    /\ Len(Top.strs) = Len(Top.node.subs)
    /\ ~(overflow_checks /\ TupUnderflows(Top))
    /\ budget_underflow' = (budget_underflow \/ TupUnderflows(Top))
    /\ ReturnAs(Listed(Top), TupResult(Top))
    /\ UNCHANGED config

-----------------------------------------------------------------------------
(* The requests explored *)

Chars == {"a", Space, Backslash, Newline, "U+E9"}

Texts == UNION {[1..n -> Chars] : n \in 0..MaxLen}

Path(snip) == Node("Path", <<>>, 1, 1, Len(snip), snip, <<>>, <<>>, <<>>)

LitInt(snip) == Node("LitInt", <<>>, 1, 1, Len(snip), snip, <<>>, <<>>, <<>>)

CallExpr(callee, args) ==
    Node("Call", <<>>, 1, 1, 0, <<"?">>, <<>>, <<callee>> \o args, <<>>)

Paren(sub) == Node("Paren", <<>>, 1, 1, 0, <<"?">>, <<>>, <<sub>>, <<>>)

Field(name, expr) == Node("Field", <<>>, 1, 1, 0, <<"?">>, name, <<expr>>, <<>>)

Struct(path, fields, base) ==
    Node("Struct", <<>>, 1, 1, 0, <<"?">>, path, fields, base)

Tup(items) == Node("Tup", <<>>, 1, 1, 0, <<"?">>, <<>>, items, <<>>)

X == Path(<<"x">>)

One == LitInt(<<"1">>)

WrapStr == LitStr(<<"a", Space, "a", Space, "a">>, 1, 2, 1)

P == <<"P">>

F(expr) == Field(<<"f">>, expr)

G(expr) == Field(<<"g">>, expr)

Leaves == {X, One, WrapStr}

Flat ==
    {Paren(l) : l \in Leaves}
    \cup {CallExpr(X, args) : args \in {<<>>, <<X>>, <<One, X>>, <<WrapStr>>}}
    \cup {Tup(items) : items \in {<<>>, <<X>>, <<WrapStr>>, <<X, One>>,
                                  <<One, X, X>>, <<WrapStr, X>>}}
    \cup {Struct(P, fields, base) :
            fields \in {<<>>, <<F(X)>>, <<F(X), G(One)>>},
            base \in {<<>>, <<X>>}}

Nested ==
    { Paren(Paren(X)),
      Paren(CallExpr(X, <<One>>)),
      Paren(Tup(<<X, One>>)),
      Paren(Struct(P, <<F(X)>>, <<>>)),
      CallExpr(Paren(X), <<X>>),
      CallExpr(CallExpr(X, <<>>), <<One>>),
      CallExpr(X, <<Paren(One)>>),
      CallExpr(X, <<Tup(<<X, One>>), X>>),
      Tup(<<Paren(X)>>),
      Tup(<<Tup(<<X>>), One>>),
      Tup(<<X, Paren(One)>>),
      Tup(<<CallExpr(X, <<One>>), X>>),
      Struct(P, <<F(Paren(X))>>, <<>>),
      Struct(P, <<F(X)>>, <<Paren(X)>>),
      Struct(P, <<F(Tup(<<X, One>>))>>, <<>>) }

Exprs == Leaves \cup Flat \cup Nested

SeparatorTactics == {"Always", "Never", "Vertical"}

Input(node, width, offset, mw, trailing) ==
    [node |-> node, width |-> width, offset |-> offset, max_width |-> mw,
     trailing |-> trailing]

\* string literals that span two lines, under a narrow max_width
WrapInputs ==
    {Input(LitStr(text, 1, 2, 1), width, offset, NarrowMaxWidth, "Vertical") :
        text \in Texts, width \in 0..NarrowMaxWidth,
        offset \in 0..(NarrowMaxWidth - 1)}

\* string literals on one line that end around max_width
OneLineInputs ==
    {Input(LitStr(text, 1, 1, hi_col), width, offset, NarrowMaxWidth, "Vertical") :
        text \in {t \in Texts : Len(t) <= 1},
        hi_col \in (NarrowMaxWidth - 1)..(NarrowMaxWidth + 1),
        width \in {0, 1, NarrowMaxWidth}, offset \in {0}}

ExprInputs ==
    {Input(e, width, offset, WideMaxWidth, "Vertical") :
        e \in Exprs, width \in 0..WideMaxWidth, offset \in 0..MaxOffset}
    \cup {Input(e, WideMaxWidth, 0, WideMaxWidth, t) :
            e \in {x \in Flat : x.kind = "Struct"}, t \in SeparatorTactics}

Inputs == WrapInputs \cup OneLineInputs \cup ExprInputs

-----------------------------------------------------------------------------

Init ==
    \E in \in Inputs :
        /\ max_width = in.max_width
        /\ trailing_comma = in.trailing
        /\ overflow_checks \in BOOLEAN
        /\ request = [node |-> in.node, width |-> in.width, offset |-> in.offset]
        /\ stack = <<Frame("rewrite_expr", "top", in.node, in.width, in.offset)>>
        /\ ret = <<>>
        /\ done_frame = NoFrame
        /\ status = "running"
        /\ budget_underflow = FALSE

Next ==
    \/ ExprDispatch
    \/ ExprReturn
    \/ ExprSnippet
    \/ StrShortCircuit
    \/ StrEscape
    \/ StrBudgetPanic
    \/ StrLastSegment
    \/ StrCut
    \/ StrBreakAtWhitespace
    \/ StrFallBack
    \/ StrSearchPanic
    \/ StrFallBackLeft
    \/ StrFallBackStop
    \/ StrPushLine
    \/ StrSlicePanic
    \/ CallCallee
    \/ CallPanic
    \/ CallBudget
    \/ CallArg
    \/ CallFinish
    \/ ParenPanic
    \/ ParenSub
    \/ ParenFinish
    \/ StructAssert
    \/ StructPanic
    \/ StructBegin
    \/ StructField
    \/ StructBase
    \/ StructFinish
    \/ FieldPanic
    \/ FieldValue
    \/ FieldFinish
    \/ TupPanic
    \/ TupSingle
    \/ TupSingleFinish
    \/ TupItem
    \/ TupFinish

Spec == Init /\ [][Next]_vars

-----------------------------------------------------------------------------
(* Properties *)

StrFrame(f) == f.fn = "rewrite_string_lit"

Handled == {"LitStr", "Call", "Paren", "Struct", "Tup"}

\* the positions of an escaped text that are not inside an escape sequence
EscapeBoundaries(text) ==
    {Len(escape_default(SubSeq(text, 1, k))) : k \in 0..Len(text)}

\* r without its join markers: a backslash, a line break, n columns of indent
RECURSIVE StripJoins(_, _)
StripJoins(r, n) ==
    IF r = <<>> THEN <<>>
    ELSE IF Len(r) >= 2 /\ r[1] = Backslash /\ r[2] = Newline
    THEN StripJoins(SubSeq(r, 3 + n, Len(r)), n)
    ELSE <<r[1]>> \o StripJoins(Tail(r), n)

LongestWord(s) ==
    LET runs == {j - i + 1 : i \in 1..Len(s), j \in 1..Len(s)}
        IsWord(i, n) == \A k \in i..(i + n - 1) : ~is_whitespace(s[k])
        lens == {n \in runs : \E i \in 1..(Len(s) - n + 1) : n >= 1 /\ IsWord(i, n)}
    IN  IF lens = {} THEN 0 ELSE CHOOSE n \in lens : \A m \in lens : m <= n

\* C1: every iteration of the wrapping loop that does not take the final
\* branch fixes a cut point strictly greater than the segment start, also
\* when the characters at the capacity boundary are backslashes; the
\* backward walk over backslashes never stands still.
C1_CutAdvances ==
    \A i \in 1..Len(stack) :
        /\ (StrFrame(stack[i]) /\ stack[i].pc = "skip")
              => SkipRight(stack[i].s, stack[i].cur_end) > stack[i].cur_start
        /\ (StrFrame(stack[i]) /\ stack[i].pc = "fallback"
              /\ stack[i].s[prev_char(stack[i].s, stack[i].cur_end) + 1] = Backslash)
              => stack[i].cur_end > 0

\* C2: no cut point of the wrapper lies strictly inside an escape sequence
\* of the escaped text, two-character or multi-character.
C2_NoEscapeSplit ==
    \A i \in 1..Len(stack) :
        (StrFrame(stack[i]) /\ stack[i].pc = "loop")
            => stack[i].cur_start \in EscapeBoundaries(stack[i].node.s)

\* C3: the segments are consecutive slices that cover the escaped text once
\* and in order: without the join markers, the text pushed so far is the
\* opening quote and the escaped text up to cur_start, and the returned
\* string is the escaped text between quotes.
C3_SegmentsCoverText ==
    /\ \A i \in 1..Len(stack) :
          (StrFrame(stack[i]) /\ stack[i].pc # "entry")
              => StripJoins(stack[i].result, stack[i].offset + 1)
                    = <<Quote>> \o SubSeq(escape_default(stack[i].node.s), 1,
                                          stack[i].cur_start)
    /\ (StrFrame(done_frame) /\ done_frame.pc # "entry")
          => StripJoins(ret, done_frame.offset + 1)
                = <<Quote>> \o escape_default(done_frame.node.s) \o <<Quote>>

\* a wrapped literal has returned, with whitespace skipped after a cut
C3_Witness ==
    /\ StrFrame(done_frame)
    /\ done_frame.pc = "loop"
    /\ done_frame.lines >= 1
    /\ Len(ret) > Len(escape_default(done_frame.node.s)) + 2
    /\ \E k \in 1..done_frame.cur_start :
          /\ escape_default(done_frame.node.s)[k] = Space
          /\ k > 1
          /\ escape_default(done_frame.node.s)[k - 1] = Space

\* C4: when no word of the text is longer than a segment's capacity, every
\* segment is at most its capacity long, also when whitespace follows the cut.
C4_SegmentWithinCapacity ==
    \A i \in 1..Len(stack) :
        LET f == stack[i] IN
        (/\ StrFrame(f)
         /\ f.pc = "skip"
         /\ f.width >= 2
         /\ max_width >= f.offset + 2
         /\ LongestWord(f.s) <= f.width - 2
         /\ LongestWord(f.s) <= max_width - (f.offset + 1) - 1)
            => SkipRight(f.s, f.cur_end) - f.cur_start <= f.max_chars

\* C5: whenever a budget subtraction goes below zero the request ends in an
\* error; nothing runs on with a wrapped-around width.
C5_UnderflowIsFatal == budget_underflow => status = "panicked"

\* C6: a one-element tuple [x] is rendered as "(" + rendering of x + ",)",
\* x being rendered with (width - 3, offset + 1); write_list and the budgets
\* of the multi-element case are not used.
C6_SingletonTuple ==
    /\ (done_frame.fn = "rewrite_tuple_lit" /\ Len(done_frame.node.subs) = 1)
          => /\ ret = <<"(">> \o done_frame.strs[1] \o <<",", ")">>
             /\ done_frame.lists = 0
    /\ \A i \in 1..Len(stack) :
          (stack[i].fn = "rewrite_tuple_lit" /\ Len(stack[i].node.subs) = 1)
              => /\ i < Len(stack) =>
                       /\ stack[i + 1].fn = "rewrite_expr"
                       /\ stack[i + 1].node = stack[i].node.subs[1]
                       /\ stack[i + 1].width = (stack[i].width - 3) % Modulus
                       /\ stack[i + 1].offset = stack[i].offset + 1
                 /\ (i = Len(stack) /\ stack[i].pc # "entry" /\ status = "running")
                       => /\ stack[i].strs = <<ret>>
                          /\ done_frame.node = stack[i].node.subs[1]
                          /\ done_frame.width = (stack[i].width - 3) % Modulus

\* a one-element tuple has returned at the top level
C6_Witness ==
    /\ status = "done"
    /\ request.node.kind = "Tup"
    /\ Len(request.node.subs) = 1
    /\ request.width = 3
    /\ ret = <<"(", "x", ",", ")">>

\* C7: a string literal on one line whose end column is at most max_width
\* (boundary included) is returned as snippet(span), without escaping, budget
\* arithmetic or failure; any other string literal is never short-circuited.
C7_ShortCircuit ==
    LET Short(node) == node.lo_line = node.hi_line /\ node.hi_col <= max_width IN
    /\ StrFrame(done_frame)
          => IF Short(done_frame.node)
             THEN ret = done_frame.node.snip /\ done_frame.pc = "entry"
             ELSE done_frame.pc # "entry"
    /\ \A i \in 1..Len(stack) :
          (StrFrame(stack[i]) /\ Short(stack[i].node))
              => stack[i].pc = "entry" /\ status = "running"
    /\ (request.node.kind = "LitStr" /\ Short(request.node))
          => ~budget_underflow /\ status # "panicked"

\* a literal ending exactly at max_width, with width < 2, returned as spelled
C7_Witness ==
    /\ status = "done"
    /\ request.node.kind = "LitStr"
    /\ request.node.lo_line = request.node.hi_line
    /\ request.node.hi_col = max_width
    /\ request.width < 2
    /\ ret = request.node.snip
    /\ ret # <<Quote>> \o escape_default(request.node.s) \o <<Quote>>

\* C8: an expression that is neither a string literal, a call, a
\* parenthesized expression, a struct literal nor a tuple literal is returned
\* as snippet(span) for every width and offset, without a nested call, budget
\* arithmetic or failure.
C8_FallbackSnippet ==
    /\ (done_frame.fn = "rewrite_expr" /\ done_frame.node.kind \notin Handled)
          => ret = done_frame.node.snip /\ done_frame.pc = "entry"
    /\ \A i \in 1..Len(stack) :
          (stack[i].fn = "rewrite_expr" /\ stack[i].node.kind \notin Handled)
              => i = Len(stack) /\ stack[i].pc = "entry" /\ status = "running"
    /\ request.node.kind \notin Handled
          => ~budget_underflow /\ status # "panicked"

\* a non-string literal rewritten with width 0
C8_Witness ==
    /\ status = "done"
    /\ request.node.kind = "LitInt"
    /\ request.width = 0
    /\ ret = request.node.snip

\* C9 as stated: every nested rewrite call receives a width no greater and an
\* offset no smaller than its caller received.
C9_BudgetsShrink ==
    \A i \in 2..Len(stack) :
        stack[i].fn \in {"rewrite_expr", "rewrite_field"}
            => /\ stack[i].width <= stack[i - 1].width
               /\ stack[i].offset >= stack[i - 1].offset

\* C9 amended: offsets never shrink; a non-last element of a multi-element
\* tuple receives max_width - (offset + 1) - 2, whatever its caller's width;
\* every other nested call receives a width no greater than its caller's
\* unless a budget subtraction went below zero, and then a build with
\* overflow checks has panicked.
C9_BudgetsShrinkButTuple ==
    /\ \A i \in 2..Len(stack) :
          stack[i].fn \in {"rewrite_expr", "rewrite_field"}
              => /\ stack[i].offset >= stack[i - 1].offset
                 /\ stack[i].role = "tuple_other"
                       => stack[i].width
                             = (max_width - (stack[i - 1].offset + 1) - 2) % Modulus
                 /\ (stack[i].role # "tuple_other" /\ ~budget_underflow)
                       => stack[i].width <= stack[i - 1].width
    /\ (budget_underflow /\ overflow_checks) => status = "panicked"

\* a non-last tuple element with more width than the tuple itself
C9_Witness ==
    /\ ~budget_underflow
    /\ \E i \in 2..Len(stack) :
          /\ stack[i].role = "tuple_other"
          /\ stack[i].width > stack[i - 1].width
          /\ stack[i].offset > stack[i - 1].offset

\* the rewrite_expr call of the enclosing expression, 0 if there is none
Enclosing(i) ==
    LET below == {j \in 1..(i - 1) : stack[j].fn = "rewrite_expr"} IN
    IF below = {} THEN 0 ELSE CHOOSE j \in below : \A k \in below : k <= j

Margin(f) == f.width + f.offset

====
